---- MODULE Spec2Model ----
(***************************************************************************)
(* Model of app.py: the overlay builder (create_overlay), the colour       *)
(* parser (hex_to_rgb01), the random duration generator                    *)
(* (random_hours_string), the page merger (fill_pdf) and the Streamlit     *)
(* button handler that calls it.                                           *)
(*                                                                         *)
(* Representation                                                          *)
(*  - A Python str is a sequence of one-character strings; an optional     *)
(*    value is a record [isNone, str].                                     *)
(*  - Lengths on the page are integers in quarter points (1 pt = 4), so    *)
(*    that MASK_H * 0.25 = 3.75 pt and 34 * 0.25 = 8.5 pt are exact.       *)
(*  - A Python float in the duration generator is a binary floating-point  *)
(*    number with a MantissaBits-bit significand, rounded to nearest, ties *)
(*    to even.  A float x >= 1 is held as the integer x * FUnit.           *)
(*  - A call that raises is a result record with ok = FALSE and the name   *)
(*    of the Python exception.                                             *)
(***************************************************************************)
EXTENDS Integers, Sequences, FiniteSets, TLC

VARIABLES certificate, op, args, ret, canvas, reader, ui

vars == <<certificate, op, args, ret, canvas, reader, ui>>

(***************************************************************************)
(* Bounds of the model                                                     *)
(***************************************************************************)
MantissaBits == 9
MaxPages == 2
MaxTextLen == 40
MaxColorLen == 7

(***************************************************************************)
(* Optional values and call results                                        *)
(***************************************************************************)
None == [isNone |-> TRUE, str |-> <<>>]

Some(s) == [isNone |-> FALSE, str |-> s]

\* Python truthiness of an optional str: None and "" are falsy.
Truthy(v) == ~v.isNone /\ v.str # <<>>

\* Python `v or ""`.
OrEmpty(v) == IF Truthy(v) THEN v.str ELSE <<>>

Return(v) == [ok |-> TRUE, exc |-> "", val |-> v]

Raise(e) == [ok |-> FALSE, exc |-> e, val |-> <<>>]

(***************************************************************************)
(* Binary floating point (Python float), scaled to MantissaBits            *)
(***************************************************************************)
RECURSIVE Pow2(_)
Pow2(k) == IF k = 0 THEN 1 ELSE 2 * Pow2(k - 1)

\* The integer that represents 1.0.
FUnit == Pow2(MantissaBits - 1)

Hours(h) == h * FUnit

\* Significands are below 2^MantissaBits.
FSignificands == Pow2(MantissaBits)

\* The spacing of the floats around n: the least power of two q with
\* n < q * 2^MantissaBits.
RECURSIVE Quantum(_, _)
Quantum(n, q) == IF n < q * FSignificands THEN q ELSE Quantum(n, 2 * q)

\* Round to nearest representable float, ties to even.
RoundFloat(n) ==
    LET q == Quantum(n, 1)
        k == n \div q
        r == n % q
    IN  IF 2 * r > q \/ (2 * r = q /\ k % 2 = 1) THEN (k + 1) * q ELSE k * q

IsFloat(n) == RoundFloat(n) = n

\* Float product x * 60 of a float x (held as n) with the integer 60.
FMul60(n) == RoundFloat(n * 60)

\* Float difference a - b, a >= b.
FSub(a, b) == RoundFloat(a - b)

\* int(x) / math.floor(x) of a non-negative float.
FloorInt(n) == n \div FUnit

\* random.uniform(a, b): some float N with a <= N <= b (b <= N <= a when
\* b < a); the end point b may be returned.
Uniform(a, b) ==
    {n \in (IF a <= b THEN a ELSE b)..(IF a <= b THEN b ELSE a) : IsFloat(n)}

(***************************************************************************)
(* String formatting                                                       *)
(***************************************************************************)
DecDigits == <<"0", "1", "2", "3", "4", "5", "6", "7", "8", "9">>

RECURSIVE Str(_)
\* str(n) for n >= 0
Str(n) == IF n < 10 THEN <<DecDigits[n + 1]>>
          ELSE Str(n \div 10) \o <<DecDigits[(n % 10) + 1]>>

\* f"{n:02d}" for n >= 0
Pad02d(n) == IF n < 10 THEN <<"0">> \o Str(n) ELSE Str(n)

(***************************************************************************)
(* random_hours_string                                                     *)
(***************************************************************************)
\* The body of random_hours_string after the draw: val is the float drawn.
HoursString(val) ==
    LET hours_int == FloorInt(val)
        frac == FSub(val, hours_int * FUnit)
        minutes == FloorInt(FMul60(frac))
        seconds == FloorInt(FMul60(FSub(FMul60(frac), minutes * FUnit)))
    IN  Pad02d(hours_int) \o <<":">> \o Pad02d(minutes) \o <<":">> \o Pad02d(seconds)

\* random_hours_string never checks its bounds and never raises.
random_hours_string(min_hours, max_hours, val) == Return(HoursString(val))

(***************************************************************************)
(* hex_to_rgb01                                                            *)
(***************************************************************************)
HexDigits == <<"0", "1", "2", "3", "4", "5", "6", "7", "8", "9",
               "a", "b", "c", "d", "e", "f">>

UpperHexDigits == <<"0", "1", "2", "3", "4", "5", "6", "7", "8", "9",
                    "A", "B", "C", "D", "E", "F">>

IsHexChar(c) == \E i \in 1..16 : HexDigits[i] = c \/ UpperHexDigits[i] = c

HexCharValue(c) ==
    (CHOOSE i \in 1..16 : HexDigits[i] = c \/ UpperHexDigits[i] = c) - 1

\* str.lstrip("#"): every leading '#' is removed.
RECURSIVE LStripHash(_)
LStripHash(s) ==
    IF s # <<>> /\ Head(s) = "#" THEN LStripHash(Tail(s)) ELSE s

\* s[a:b] for 0 <= a <= b; a slice never raises, it clamps to the string.
Slice(s, a, b) ==
    LET hi == IF b < Len(s) THEN b ELSE Len(s)
    IN  IF a + 1 > hi THEN <<>> ELSE SubSeq(s, a + 1, hi)

\* int(s, 16) succeeds on a non-empty run of hexadecimal digits (the model's
\* alphabet has no sign, blank or underscore).
IntParses(s) == s # <<>> /\ \A i \in 1..Len(s) : IsHexChar(s[i])

RECURSIVE Int16(_)
Int16(s) ==
    IF s = <<>> THEN 0
    ELSE 16 * Int16(SubSeq(s, 1, Len(s) - 1)) + HexCharValue(s[Len(s)])

\* A colour component n / 255.0 is held as its numerator n.
hex_to_rgb01(hexstr) ==
    LET h == LStripHash(hexstr)
        r == Slice(h, 0, 2)
        g == Slice(h, 2, 4)
        b == Slice(h, 4, 6)
    IN  IF IntParses(r) /\ IntParses(g) /\ IntParses(b)
        THEN Return(<<Int16(r), Int16(g), Int16(b)>>)
        ELSE Raise("ValueError")

(***************************************************************************)
(* Configuration (quarter points)                                          *)
(***************************************************************************)
Pt(n) == 4 * n

FieldKeys == <<"name", "email", "dob">>

coords == [name |-> <<Pt(227), Pt(646)>>,
           email |-> <<Pt(227), Pt(626)>>,
           dob |-> <<Pt(227), Pt(586)>>]

FONT_NAME == "Helvetica"

FONT_SIZE == 9

MASK_W == Pt(150)

MASK_H == Pt(15)

RECT_X_OFFSET == Pt(3)

RECT_Y_ADJUST == MASK_H \div 4

hours_coords == <<Pt(414), Pt(606)>>

hours_font == "Helvetica"

hours_font_size == 26

DEFAULT_TEXT_COLOR == <<"#", "1", "d", "3", "5", "5", "c">>

DEFAULT_BG_COLOR == <<"#", "f", "3", "f", "6", "f", "7">>

\* Width of a run of 'x' glyphs in Helvetica: each advances 500/1000 of the
\* font size, that is 2 quarter points per point of size.
stringWidth(text, size) == Len(text) * 2 * size

(***************************************************************************)
(* The reportlab canvas                                                    *)
(***************************************************************************)
NoCanvas == [created |-> FALSE, pagesize |-> <<0, 0>>, fill |-> <<0, 0, 0>>,
             font |-> <<"Helvetica", 12>>, ops |-> <<>>, saved |-> FALSE]

\* canvas.Canvas(packet, pagesize=...): black fill, Helvetica 12, no drawing.
NewCanvas(pagesize) == [NoCanvas EXCEPT !.created = TRUE, !.pagesize = pagesize]

setFillColorRGB(c, rgb) == [c EXCEPT !.fill = rgb]

setFont(c, name, size) == [c EXCEPT !.font = <<name, size>>]

\* c.rect(x, y, w, h, fill=True, stroke=False): filled in the current colour.
rect(c, x, y, w, h) ==
    [c EXCEPT !.ops = Append(@, [kind |-> "rect", x |-> x, y |-> y, w |-> w,
                                 h |-> h, color |-> c.fill, text |-> <<>>,
                                 font |-> c.font])]

\* c.drawString(x, y, text): drawn in the current colour and font.
drawString(c, x, y, text) ==
    [c EXCEPT !.ops = Append(@, [kind |-> "string", x |-> x, y |-> y, w |-> 0,
                                 h |-> 0, color |-> c.fill, text |-> text,
                                 font |-> c.font])]

save(c) == [c EXCEPT !.saved = TRUE]

(***************************************************************************)
(* create_overlay                                                          *)
(***************************************************************************)
\* SkipField with the test `if text is None` in place of `if not text`: a
\* str is never None, so the empty string is drawn like any other.
SkipField_IsNone(text) == FALSE

\* `if not text: continue`
SkipField(text) == text = <<>>

\* DrawField with the two setFillColorRGB calls exchanged.
DrawField_ColorsSwapped(c, key, values, bg_rgb, txt_rgb, font_name, font_size) ==
    LET x == coords[key][1]
        y == coords[key][2]
        text == values[key]
        c1 == setFillColorRGB(c, txt_rgb)
        c2 == rect(c1, x - RECT_X_OFFSET, y - RECT_Y_ADJUST, MASK_W, MASK_H)
        c3 == setFillColorRGB(c2, bg_rgb)
        c4 == setFont(c3, font_name, font_size)
    IN  IF text = <<>> THEN c ELSE drawString(c4, x, y, text)

\* One iteration of the loop over coords.items().
DrawField(c, key, values, bg_rgb, txt_rgb, font_name, font_size) ==
    LET x == coords[key][1]
        y == coords[key][2]
        text == values[key]
        rect_x == x - RECT_X_OFFSET
        rect_y == y - RECT_Y_ADJUST
        c1 == setFillColorRGB(c, bg_rgb)
        c2 == rect(c1, rect_x, rect_y, MASK_W, MASK_H)
        c3 == setFillColorRGB(c2, txt_rgb)
        c4 == setFont(c3, font_name, font_size)
    IN  IF SkipField(text) THEN c ELSE drawString(c4, x, y, text)

\* The loop over coords.items(), in insertion order, from the i-th key on.
RECURSIVE DrawFields(_, _, _, _, _, _, _)
DrawFields(c, i, values, bg_rgb, txt_rgb, font_name, font_size) ==
    IF i > Len(FieldKeys) THEN c
    ELSE DrawFields(DrawField(c, FieldKeys[i], values, bg_rgb, txt_rgb,
                              font_name, font_size),
                    i + 1, values, bg_rgb, txt_rgb, font_name, font_size)

\* `if hours_text:` and its body.
DrawHours(c, hours_text, bg_rgb, txt_rgb) ==
    LET hx == hours_coords[1]
        hy == hours_coords[2]
        hours_bg_w == Pt(105)
        hours_bg_h == Pt(hours_font_size + 8)
        hours_rect_x == hx - Pt(10)
        hours_rect_y == hy - (hours_bg_h \div 4)
        c1 == setFillColorRGB(c, bg_rgb)
        c2 == rect(c1, hours_rect_x, hours_rect_y, hours_bg_w, hours_bg_h)
        c3 == setFillColorRGB(c2, txt_rgb)
        c4 == setFont(c3, hours_font, hours_font_size)
    IN  IF Truthy(hours_text) THEN drawString(c4, hx, hy, hours_text.str) ELSE c

\* The result of create_overlay and the canvas it leaves behind.  The overlay
\* returned is the page read back from the saved canvas.
create_overlay(page_width, page_height, name, email, dob, text_color, background_color, font_name, font_size, hours_text) ==
    LET values == [name |-> OrEmpty(name), email |-> OrEmpty(email),
                   dob |-> OrEmpty(dob)]
        c0 == NewCanvas(<<page_width, page_height>>)
        bg == hex_to_rgb01(background_color)
        txt == hex_to_rgb01(text_color)
        c1 == setFont(c0, font_name, font_size)
        c2 == DrawFields(c1, 1, values, bg.val, txt.val, font_name, font_size)
        c3 == save(DrawHours(c2, hours_text, bg.val, txt.val))
    IN  IF ~bg.ok THEN [ret |-> bg, canvas |-> c0]
        ELSE IF ~txt.ok THEN [ret |-> txt, canvas |-> c0]
        ELSE [ret |-> Return([pagesize |-> c3.pagesize, ops |-> c3.ops]),
              canvas |-> c3]

(***************************************************************************)
(* Documents                                                               *)
(***************************************************************************)
LetterSize == <<Pt(612), Pt(792)>>

A4Size == <<Pt(595), Pt(842)>>

\* Page i of the document stored as file d; content lists what has been
\* merged onto the page since it was loaded.
Page(d, i, size) == [doc |-> d, idx |-> i, mediabox |-> size, content |-> <<>>]

Document(d, n, size) == [i \in 1..n |-> Page(d, i, size)]

\* What the file certificate.pdf may hold.
CertificateFiles == {Document("certificate.pdf", n, LetterSize) : n \in 0..MaxPages}

NoTemplate == [isNone |-> TRUE, pages |-> <<>>]

\* What a caller may pass as template_bytes.
TemplateArgs == {NoTemplate, [isNone |-> FALSE, pages |-> Document("upload.pdf", 2, A4Size)]}

(***************************************************************************)
(* fill_pdf                                                                *)
(***************************************************************************)
\* PdfReader(file).pages
PdfReader(file) == file

\* PageZero falling back to a blank letter page when the document is empty.
PageZero_Fallback(pages) ==
    IF Len(pages) = 0 THEN Return(Page("blank", 1, LetterSize))
    ELSE Return(pages[1])

\* reader.pages[0]
PageZero(pages) ==
    IF Len(pages) = 0 THEN Raise("IndexError") ELSE Return(pages[1])

\* p.merge_page(overlay_page): the overlay is appended to the content of p,
\* the page object held by the reader.
merge_page(p, overlay_page) == [p EXCEPT !.content = Append(@, overlay_page)]

\* MergeStep without the test `i == 0`: the overlay goes onto every page.
MergeStep_EveryPage(i, p, overlay_page) == merge_page(p, overlay_page)

\* The body of the merge loop for the page at 0-based index i.
MergeStep(i, p, overlay_page) ==
    IF i = 0 THEN merge_page(p, overlay_page) ELSE p

\* `for i, p in enumerate(reader.pages)`, from 0-based index i on: the page
\* is changed in the reader and then added to the writer.
RECURSIVE MergeLoop(_, _, _, _)
MergeLoop(i, rd, wr, overlay_page) ==
    IF i >= Len(rd) THEN [reader |-> rd, writer |-> wr]
    ELSE LET p == MergeStep(i, rd[i + 1], overlay_page)
         IN  MergeLoop(i + 1, [rd EXCEPT ![i + 1] = p], Append(wr, p),
                       overlay_page)

\* fill_pdf on the file certificate.pdf, val being the float that
\* random.uniform returns.  The result holds the pages of the document
\* written and the hours string.
fill_pdf(template_bytes, name, email, dob, text_color, background_color, file, val) ==
    LET rd == PdfReader(file)
        page == PageZero(rd)
        w == page.val.mediabox[1]
        h == page.val.mediabox[2]
        hours_text == random_hours_string(Hours(60), Hours(65), val).val
        overlay_pdf == create_overlay(w, h, name, email, dob, text_color,
                                      background_color, FONT_NAME, FONT_SIZE,
                                      Some(hours_text))
        merged == MergeLoop(0, rd, <<>>, overlay_pdf.ret.val)
    IN  IF ~page.ok
        THEN [ret |-> page, canvas |-> NoCanvas, reader |-> rd]
        ELSE IF ~overlay_pdf.ret.ok
        THEN [ret |-> overlay_pdf.ret, canvas |-> overlay_pdf.canvas,
              reader |-> rd]
        ELSE [ret |-> Return([pages |-> merged.writer,
                              hours_text |-> hours_text]),
              canvas |-> overlay_pdf.canvas, reader |-> merged.reader]

(***************************************************************************)
(* Inputs                                                                  *)
(***************************************************************************)
XS(n) == [i \in 1..n |-> "x"]

\* Field values: absent, empty, one glyph, MaxTextLen glyphs.
FieldValues == {None, Some(XS(0)), Some(XS(1)), Some(XS(MaxTextLen))}

\* Field values passed to fill_pdf: absent or MaxTextLen glyphs.
FillValues == {None, Some(XS(MaxTextLen))}

\* What st.text_input returns: always a str.
TextInputs == {Some(XS(0)), Some(XS(1)), Some(XS(MaxTextLen))}

ColorAlphabet == {"#", "F", "g"}

ColorStrings == UNION {[1..n -> ColorAlphabet] : n \in 0..MaxColorLen}

ColorArgs == {DEFAULT_TEXT_COLOR, DEFAULT_BG_COLOR, <<"#", "g", "g">>}

\* Colours passed to fill_pdf: the default or a string that does not parse.
FillTextColors == {DEFAULT_TEXT_COLOR, <<"#", "g", "g">>}

FillBgColors == {DEFAULT_BG_COLOR, <<"#", "g", "g">>}

HourBounds == {Hours(4), Hours(60), Hours(65)}

HoursTexts == {None, Some(<<>>), Some(HoursString(Hours(60)))}

NoUi == [kind |-> "none", text |-> <<>>, data |-> <<>>]

(***************************************************************************)
(* State machine                                                           *)
(***************************************************************************)
Init ==
    /\ certificate \in CertificateFiles
    /\ op = "start"
    /\ args = <<>>
    /\ ret = Return(<<>>)
    /\ canvas = NoCanvas
    /\ reader = <<>>
    /\ ui = NoUi

\* A call hex_to_rgb01(hexstr).
HexToRgb01 ==
    /\ op = "start"
    /\ \E hexstr \in ColorStrings :
        /\ op' = "hex_to_rgb01"
        /\ args' = [hexstr |-> hexstr]
        /\ ret' = hex_to_rgb01(hexstr)
        /\ canvas' = NoCanvas
        /\ reader' = <<>>
        /\ ui' = NoUi
        /\ UNCHANGED certificate

\* A call random_hours_string(min_hours, max_hours).
RandomHoursString ==
    /\ op = "start"
    /\ \E min_hours \in HourBounds, max_hours \in HourBounds :
        \E val \in Uniform(min_hours, max_hours) :
            /\ op' = "random_hours_string"
            /\ args' = [min_hours |-> min_hours, max_hours |-> max_hours,
                        val |-> val]
            /\ ret' = random_hours_string(min_hours, max_hours, val)
            /\ canvas' = NoCanvas
            /\ reader' = <<>>
            /\ ui' = NoUi
            /\ UNCHANGED certificate

\* A call create_overlay(...) with the default font.
CreateOverlay ==
    /\ op = "start"
    /\ \E name \in FieldValues, email \in FieldValues, dob \in FieldValues,
       text_color \in ColorArgs, background_color \in ColorArgs,
       hours_text \in HoursTexts :
        \E r \in {create_overlay(LetterSize[1], LetterSize[2], name, email, dob,
                                text_color, background_color, FONT_NAME,
                                FONT_SIZE, hours_text)} :
            /\ op' = "create_overlay"
            /\ args' = [name |-> name, email |-> email, dob |-> dob,
                        text_color |-> text_color,
                        background_color |-> background_color,
                        hours_text |-> hours_text]
            /\ ret' = r.ret
            /\ canvas' = r.canvas
            /\ reader' = <<>>
            /\ ui' = NoUi
            /\ UNCHANGED certificate

\* A call fill_pdf(template_bytes, name, email, dob, text_color,
\* background_color).
FillPdf ==
    /\ op = "start"
    /\ \E val \in Uniform(Hours(60), Hours(65)),
          template_bytes \in TemplateArgs,
          name \in FillValues, email \in FillValues, dob \in FillValues,
          text_color \in FillTextColors, background_color \in FillBgColors :
        \E r \in {fill_pdf(template_bytes, name, email, dob, text_color,
                          background_color, certificate, val)} :
            /\ op' = "fill_pdf"
            /\ args' = [template_bytes |-> template_bytes, name |-> name,
                        email |-> email, dob |-> dob,
                        text_color |-> text_color,
                        background_color |-> background_color,
                        hours_text |-> Some(HoursString(val)), val |-> val]
            /\ ret' = r.ret
            /\ canvas' = r.canvas
            /\ reader' = r.reader
            /\ ui' = NoUi
            /\ UNCHANGED certificate

\* The handler of the button "Generate PDF with Random Hours".
GenerateButton ==
    /\ op = "start"
    /\ \E val \in Uniform(Hours(60), Hours(65)),
          name \in TextInputs, email \in TextInputs, dob \in TextInputs :
        \E r \in {fill_pdf(NoTemplate, name, email, dob, DEFAULT_TEXT_COLOR,
                          DEFAULT_BG_COLOR, certificate, val)} :
            /\ op' = "button"
            /\ args' = [template_bytes |-> NoTemplate, name |-> name,
                        email |-> email, dob |-> dob,
                        text_color |-> DEFAULT_TEXT_COLOR,
                        background_color |-> DEFAULT_BG_COLOR,
                        hours_text |-> Some(HoursString(val)), val |-> val]
            /\ ret' = r.ret
            /\ canvas' = r.canvas
            /\ reader' = r.reader
            /\ ui' = IF r.ret.ok
                     THEN [kind |-> "success", text |-> r.ret.val.hours_text,
                           data |-> r.ret.val.pages]
                     ELSE [kind |-> "error", text |-> <<r.ret.exc>>,
                           data |-> <<>>]
            /\ UNCHANGED certificate

\* Streamlit runs the script again from the top for the next interaction:
\* nothing of the previous call is kept, the file on disk stays as it is.
Rerun ==
    /\ op # "start"
    /\ op' = "start"
    /\ args' = <<>>
    /\ ret' = Return(<<>>)
    /\ canvas' = NoCanvas
    /\ reader' = <<>>
    /\ ui' = NoUi
    /\ UNCHANGED certificate

Next ==
    \/ HexToRgb01
    \/ RandomHoursString
    \/ CreateOverlay
    \/ FillPdf
    \/ GenerateButton
    \/ Rerun

Spec == Init /\ [][Next]_vars

(***************************************************************************)
(* Vocabulary of the properties                                            *)
(***************************************************************************)
\* The last call ran fill_pdf (directly or from the button handler).
FillCall == op \in {"fill_pdf", "button"}

\* The last call ran create_overlay to its end or to an exception.
OverlayCall == op = "create_overlay" \/ (FillCall /\ canvas.created)

TruthyKeys == {k \in {"name", "email", "dob"} : Truthy(args[k])}

FieldRect(k) == <<coords[k][1] - Pt(3), coords[k][2] - 15, Pt(150), Pt(15)>>

HoursRect == <<Pt(404), 2390, Pt(105), Pt(34)>>

OpIndexes == 1..Len(canvas.ops)

IsRectAt(i, r) ==
    /\ canvas.ops[i].kind = "rect"
    /\ <<canvas.ops[i].x, canvas.ops[i].y, canvas.ops[i].w, canvas.ops[i].h>> = r

IsStringAt(i, xy) ==
    /\ canvas.ops[i].kind = "string"
    /\ <<canvas.ops[i].x, canvas.ops[i].y>> = xy

\* The colours the call was given, as RGB triples.
BgRgb == hex_to_rgb01(args.background_color).val

TxtRgb == hex_to_rgb01(args.text_color).val

\* Mask first, text second, each in its colour: exactly one rectangle r
\* filled in the background colour, and after it the text at xy in the text
\* colour.
MaskThenText(r, xy, text) ==
    /\ Cardinality({i \in OpIndexes : IsRectAt(i, r)}) = 1
    /\ Cardinality({j \in OpIndexes : IsStringAt(j, xy)}) = 1
    /\ \E i \in OpIndexes, j \in OpIndexes :
          /\ IsRectAt(i, r) /\ canvas.ops[i].color = BgRgb
          /\ IsStringAt(j, xy) /\ canvas.ops[j].color = TxtRgb
          /\ canvas.ops[j].text = text
          /\ i < j

AllMasksThenTexts ==
    /\ \A k \in TruthyKeys : MaskThenText(FieldRect(k), coords[k], args[k].str)
    /\ Truthy(args.hours_text) =>
          MaskThenText(HoursRect, <<Pt(414), Pt(606)>>, args.hours_text.str)

(***************************************************************************)
(* C1  fill_pdf on a certificate of N >= 1 pages returns N pages in the    *)
(* same order: page 0 is the input page 0 with the overlay merged onto it, *)
(* and every later page is the input page unchanged.                       *)
(***************************************************************************)
C1_MergeKeepsPages ==
    (FillCall /\ ret.ok) =>
        LET out == ret.val.pages
            n == Len(certificate)
        IN  /\ n >= 1
            /\ Len(out) = n
            /\ out[1] = [certificate[1] EXCEPT
                           !.content = <<[pagesize |-> canvas.pagesize,
                                          ops |-> canvas.ops]>>]
            /\ \A i \in 2..n : out[i] = certificate[i]

C1_Witness == op = "fill_pdf" /\ ret.ok /\ Len(certificate) >= 2

(***************************************************************************)
(* C2  A field whose value is None or the empty string gets no mask and    *)
(* no text, and what is drawn for the other fields is what would be drawn  *)
(* without it: one mask and one text per non-empty value, nothing else.    *)
(***************************************************************************)
C2_EmptyFieldSkipped ==
    OverlayCall =>
        /\ \A k \in {"name", "email", "dob"} \ TruthyKeys :
              \A i \in OpIndexes :
                  ~IsRectAt(i, FieldRect(k)) /\ ~IsStringAt(i, coords[k])
        /\ ret.ok =>
              /\ \A k \in TruthyKeys :
                    /\ \E i \in OpIndexes : IsRectAt(i, FieldRect(k))
                    /\ \E i \in OpIndexes : IsStringAt(i, coords[k])
              /\ Len(canvas.ops) =
                    2 * Cardinality(TruthyKeys)
                    + (IF Truthy(args.hours_text) THEN 2 ELSE 0)

C2_Witness ==
    /\ op = "create_overlay" /\ ret.ok
    /\ args.name.isNone /\ args.email = Some(<<>>) /\ Truthy(args.dob)

(***************************************************************************)
(* C3  As claimed: in an overlay that is built, every non-empty field and  *)
(* the hours text get exactly one mask of the stated geometry filled in    *)
(* the background colour and, after it, their text at the anchor in the    *)
(* text colour; no rectangle is filled in the text colour and no string is *)
(* drawn in the background colour.                                         *)
(***************************************************************************)
C3_NoColorEverShared ==
    (OverlayCall /\ ret.ok) =>
        /\ AllMasksThenTexts
        /\ \A i \in OpIndexes :
              /\ canvas.ops[i].kind = "rect" => canvas.ops[i].color # TxtRgb
              /\ canvas.ops[i].kind = "string" => canvas.ops[i].color # BgRgb

(***************************************************************************)
(* C3 amended  Masks and texts are drawn as claimed; every rectangle is    *)
(* filled in the background colour and every string is drawn in the text   *)
(* colour, so that no rectangle is in the text colour and no string in the *)
(* background colour whenever the two colours differ.                      *)
(***************************************************************************)
C3_MaskThenTextInOwnColor ==
    (OverlayCall /\ ret.ok) =>
        /\ AllMasksThenTexts
        /\ \A i \in OpIndexes :
              /\ canvas.ops[i].kind = "rect" => canvas.ops[i].color = BgRgb
              /\ canvas.ops[i].kind = "string" => canvas.ops[i].color = TxtRgb

C3_Witness ==
    /\ op = "create_overlay" /\ ret.ok
    /\ Truthy(args.name) /\ Truthy(args.hours_text)
    /\ BgRgb # TxtRgb
    /\ Len(canvas.ops) >= 4

(***************************************************************************)
(* C4  For lower < upper and a drawn value lower <= v < upper, the string  *)
(* returned decodes to H, M, S with M and S in 0..59, H*3600 + M*60 + S in *)
(* [floor(lower*3600), ceil(upper*3600)) and not above v*3600; the hours   *)
(* field has at least 2 digits, minutes and seconds exactly 2.             *)
(***************************************************************************)
Colons(str) == {i \in 1..Len(str) : str[i] = ":"}

FirstColon(str) == CHOOSE i \in Colons(str) : \A j \in Colons(str) : i <= j

LastColon(str) == CHOOSE i \in Colons(str) : \A j \in Colons(str) : j <= i

HoursField(str) == SubSeq(str, 1, FirstColon(str) - 1)

MinutesField(str) == SubSeq(str, FirstColon(str) + 1, LastColon(str) - 1)

SecondsField(str) == SubSeq(str, LastColon(str) + 1, Len(str))

DigitValue(c) == (CHOOSE i \in 1..10 : DecDigits[i] = c) - 1

RECURSIVE ParseDec(_)
ParseDec(str) ==
    IF str = <<>> THEN 0
    ELSE 10 * ParseDec(SubSeq(str, 1, Len(str) - 1)) + DigitValue(str[Len(str)])

DecodedSeconds(str) ==
    ParseDec(HoursField(str)) * 3600 + ParseDec(MinutesField(str)) * 60
    + ParseDec(SecondsField(str))

C4_DurationWithinBounds ==
    (/\ op = "random_hours_string"
     /\ args.min_hours < args.max_hours
     /\ args.min_hours <= args.val /\ args.val < args.max_hours) =>
        /\ ret.ok
        /\ Cardinality(Colons(ret.val)) = 2
        /\ Len(HoursField(ret.val)) >= 2
        /\ Len(MinutesField(ret.val)) = 2
        /\ Len(SecondsField(ret.val)) = 2
        /\ ParseDec(MinutesField(ret.val)) \in 0..59
        /\ ParseDec(SecondsField(ret.val)) \in 0..59
        /\ DecodedSeconds(ret.val) >= (args.min_hours * 3600) \div FUnit
        /\ DecodedSeconds(ret.val) < (args.max_hours * 3600 + FUnit - 1) \div FUnit
        /\ DecodedSeconds(ret.val) * FUnit <= args.val * 3600

(***************************************************************************)
(* C5  A colour string that is not six hexadecimal digits, optionally      *)
(* after one '#', makes hex_to_rgb01 and create_overlay fail.              *)
(***************************************************************************)
WellFormedColor(str) ==
    LET digits == IF str # <<>> /\ Head(str) = "#" THEN Tail(str) ELSE str
    IN  Len(digits) = 6 /\ \A i \in 1..6 : IsHexChar(digits[i])

C5_MalformedColorFails ==
    /\ (op = "hex_to_rgb01" /\ ~WellFormedColor(args.hexstr)) => ~ret.ok
    /\ (/\ OverlayCall
        /\ ~(WellFormedColor(args.text_color)
             /\ WellFormedColor(args.background_color))) => ~ret.ok

(***************************************************************************)
(* C6  With a certificate of zero pages fill_pdf fails (the exception of   *)
(* reader.pages[0], an IndexError, is the empty-document error) before a   *)
(* canvas exists: create_overlay is not called, nothing is drawn, no       *)
(* document is returned.                                                   *)
(***************************************************************************)
C6_EmptyDocumentFailsFirst ==
    (FillCall /\ Len(certificate) = 0) =>
        /\ ~ret.ok
        /\ ret.exc = "IndexError"
        /\ ret.val = <<>>
        /\ ~canvas.created
        /\ canvas.ops = <<>>
        /\ op = "button" => (ui.kind = "error" /\ ui.data = <<>>)

C6_Witness == op = "fill_pdf" /\ Len(certificate) = 0 /\ ~ret.ok

(***************************************************************************)
(* C7  random_hours_string called with lower bound >= upper bound fails    *)
(* and returns no string.                                                  *)
(***************************************************************************)
C7_InvalidRangeFails ==
    (op = "random_hours_string" /\ args.min_hours >= args.max_hours) => ~ret.ok

(***************************************************************************)
(* C8  After the merge, page 0 of the loaded base document is as it was    *)
(* loaded, and the output holds exactly one overlay.                       *)
(***************************************************************************)
C8_BaseDocumentUntouched ==
    (FillCall /\ ret.ok) =>
        /\ reader = certificate
        /\ Len(ret.val.pages[1].content) = 1

(***************************************************************************)
(* C9  The pages fill_pdf returns are the pages of the document passed as  *)
(* template_bytes, with the overlay on page 0.                             *)
(***************************************************************************)
C9_OutputBuiltFromTemplate ==
    (FillCall /\ ret.ok /\ ~args.template_bytes.isNone) =>
        /\ Len(ret.val.pages) = Len(args.template_bytes.pages)
        /\ \A i \in 1..Len(ret.val.pages) :
              /\ ret.val.pages[i].doc = args.template_bytes.pages[i].doc
              /\ ret.val.pages[i].idx = args.template_bytes.pages[i].idx
              /\ ret.val.pages[i].mediabox = args.template_bytes.pages[i].mediabox

(***************************************************************************)
(* C10  No text is overpainted by a mask filled later in the same call:    *)
(* the baseline of a string, from its anchor rightward over its rendered   *)
(* width, meets no rectangle filled after it, and the mask rectangles are  *)
(* pairwise disjoint.                                                      *)
(***************************************************************************)
BaselineMeetsRect(t, r) ==
    /\ r.y <= t.y /\ t.y <= r.y + r.h
    /\ t.x <= r.x + r.w
    /\ r.x <= t.x + stringWidth(t.text, t.font[2])

RectsOverlap(a, b) ==
    /\ a.x < b.x + b.w /\ b.x < a.x + a.w
    /\ a.y < b.y + b.h /\ b.y < a.y + a.h

C10_TextNeverOverpainted ==
    (OverlayCall /\ ret.ok) =>
        \A i \in OpIndexes, j \in OpIndexes :
            /\ (/\ i < j
                /\ canvas.ops[i].kind = "string"
                /\ canvas.ops[j].kind = "rect") =>
                  ~BaselineMeetsRect(canvas.ops[i], canvas.ops[j])
            /\ (/\ i < j
                /\ canvas.ops[i].kind = "rect"
                /\ canvas.ops[j].kind = "rect") =>
                  ~RectsOverlap(canvas.ops[i], canvas.ops[j])

====
